---- MODULE Spec2Model ----
(***************************************************************************)
(* Model of the PDF compression service.                                   *)
(*                                                                         *)
(*   backend/pdf_compressor.py  PDFCompressor: __init__, _find_ghostscript,*)
(*                              get_file_size, compress_pdf                *)
(*   backend/app.py             allowed_file, POST /api/compress           *)
(*                                                                         *)
(* Processes 1..NumRequests are concurrent POST /api/compress requests     *)
(* (specification Spec).  Process Client is a direct caller of            *)
(* PDFCompressor().compress_pdf(input, output, quality) with arbitrary     *)
(* arguments (specification LibSpec, and FairLibSpec for liveness).        *)
(*                                                                         *)
(* The file system, the Ghostscript process, the upload stream and         *)
(* os.remove are the environment: their outcomes are drawn with \E.        *)
(* File names are sequences of one-character strings so that rsplit,       *)
(* lower and strip are computed, not assumed.                              *)
(***************************************************************************)
EXTENDS Integers, Sequences, FiniteSets, TLC

\* ------------------------------------------------------------------ bounds
NumRequests == 2
Requests == 1..NumRequests
Client == 0
Procs == {Client} \cup Requests

\* File sizes in bytes the environment can produce.
BigSize == 1000
SmallSize == 400
UploadSizes == {0, BigSize}
OutputSizes == {0, SmallSize}

\* ------------------------------------------------------- program constants
QualityKeyList == <<"low", "medium", "high", "max">>
QUALITY_SETTINGS ==
    [q \in {QualityKeyList[i] : i \in DOMAIN QualityKeyList} |->
        CASE q = "low" -> "/screen"
          [] q = "medium" -> "/ebook"
          [] q = "high" -> "/printer"
          [] q = "max" -> "/prepress"]
valid_qualities == <<"low", "medium", "high", "max">>
ALLOWED_EXTENSIONS == {<<"p", "d", "f">>}
UPLOAD_FOLDER == "tmp"
BundledPath == "../gs10.05.1/bin/gswin64c.exe"

\* Command names a host may have on PATH; _find_ghostscript never reads them.
CandidateCommands == <<"gs", "gswin64c">>

Range(s) == {s[i] : i \in DOMAIN s}

\* ------------------------------------------------------------------ strings
\* str.lower() on the characters that occur in the modelled file names.
LowerChar(c) ==
    CASE c = "A" -> "a" [] c = "B" -> "b" [] c = "D" -> "d"
      [] c = "F" -> "f" [] c = "P" -> "p" [] c = "T" -> "t"
      [] c = "X" -> "x" [] OTHER -> c
Lower(s) == [i \in 1..Len(s) |-> LowerChar(s[i])]

\* filename.rsplit('.', 1)[1]: what follows the last dot ('.' in filename holds).
RSplitLast(s) ==
    LET k == CHOOSE i \in 1..Len(s) :
                 s[i] = "." /\ \A j \in (i+1)..Len(s) : s[j] # "."
    IN  SubSeq(s, k + 1, Len(s))

allowed_file(filename) ==
    "." \in Range(filename) /\ Lower(RSplitLast(filename)) \in ALLOWED_EXTENSIONS

\* werkzeug secure_filename on names of ASCII letters, digits, '.', '_' and '/':
\* path separators become '_' between parts, then strip("._").
RECURSIVE StripLeft(_)
StripLeft(s) ==
    IF s # <<>> /\ Head(s) \in {".", "_"} THEN StripLeft(Tail(s)) ELSE s
RECURSIVE StripRight(_)
StripRight(s) ==
    IF s # <<>> /\ s[Len(s)] \in {".", "_"}
    THEN StripRight(SubSeq(s, 1, Len(s) - 1)) ELSE s
secure_filename(filename) ==
    StripRight(StripLeft([i \in 1..Len(filename) |->
        IF filename[i] = "/" THEN "_" ELSE filename[i]]))

\* ------------------------------------------------------------- file system
\* A path is [dir, name]; fsys maps each existing path to [size, owner], the
\* owner being the process that wrote the file.
Path(dir, name) == [dir |-> dir, name |-> name]
Exists(fsys, p) == p \in DOMAIN fsys
get_file_size(fsys, p) == fsys[p].size
WriteFile(fsys, p, size, who) ==
    [q \in (DOMAIN fsys) \cup {p} |->
        IF q = p THEN [size |-> size, owner |-> who] ELSE fsys[q]]
RemoveFile(fsys, p) == [q \in (DOMAIN fsys) \ {p} |-> fsys[q]]
NoFiles == [q \in {} |-> [size |-> 0, owner |-> 0]]
\* os.path.dirname(path)
Dirname(p) == p.dir

\* ------------------------------------------------------------ PDFCompressor
None == "None"

\* _find_ghostscript: the bundled relative path when it exists, else None
\* (the function falls off its end).  PATH is not consulted.
find_ghostscript(bundled, onPath) ==
    IF bundled THEN BundledPath ELSE None

Failure(msg) == [success |-> FALSE, message |-> msg]
Success(msg) == [success |-> TRUE, message |-> msg]
InvalidQualityMsg ==
    [text |-> "Invalid quality setting. Choose from: ", names |-> QualityKeyList]
InputNotFoundMsg(p) == [text |-> "Input file not found: ", path |-> p]
GhostscriptErrorMsg == [text |-> "Ghostscript error: "]
NotCreatedMsg == [text |-> "Compression failed: Output file not created"]
UnexpectedMsg(what) == [text |-> "Unexpected error: ", error |-> what]

\* os.makedirs(output_dir, exist_ok=True) on the directory table.
makedirs(dirstate, d) == [dirstate EXCEPT ![d] = "present"]

\* compress_pdf up to subprocess.run: what the call does next.
\*   kind "return": a result is returned without starting the engine
\*   kind "raise" : os.makedirs raised, outside the try block
\*   kind "spawn" : the engine is started with gs_command
compress_pre_input_first(quality, input_path, output_path, fsys, dirstate) ==
    IF ~Exists(fsys, input_path)
    THEN [kind |-> "return", result |-> Failure(InputNotFoundMsg(input_path)),
          dirs |-> dirstate]
    ELSE IF quality \notin DOMAIN QUALITY_SETTINGS
    THEN [kind |-> "return", result |-> Failure(InvalidQualityMsg),
          dirs |-> dirstate]
    ELSE [kind |-> "spawn", result |-> None,
          dirs |-> IF Dirname(output_path) # ""
                   THEN makedirs(dirstate, Dirname(output_path)) ELSE dirstate]
compress_pre_no_input_check(quality, input_path, output_path, fsys, dirstate) ==
    IF quality \notin DOMAIN QUALITY_SETTINGS
    THEN [kind |-> "return", result |-> Failure(InvalidQualityMsg),
          dirs |-> dirstate]
    ELSE [kind |-> "spawn", result |-> None,
          dirs |-> IF Dirname(output_path) # ""
                   THEN makedirs(dirstate, Dirname(output_path)) ELSE dirstate]
compress_pre(quality, input_path, output_path, fsys, dirstate) ==
    IF quality \notin DOMAIN QUALITY_SETTINGS
    THEN [kind |-> "return", result |-> Failure(InvalidQualityMsg),
          dirs |-> dirstate]
    ELSE IF ~Exists(fsys, input_path)
    THEN [kind |-> "return", result |-> Failure(InputNotFoundMsg(input_path)),
          dirs |-> dirstate]
    ELSE IF Dirname(output_path) # "" /\ dirstate[Dirname(output_path)] = "blocked"
    THEN [kind |-> "raise", result |-> None, dirs |-> dirstate]
    ELSE [kind |-> "spawn", result |-> None,
          dirs |-> IF Dirname(output_path) # ""
                   THEN makedirs(dirstate, Dirname(output_path)) ELSE dirstate]

\* compression_ratio = (1 - compressed_size / original_size) * 100, in tenths
\* of a percent (exact for the sizes drawn here).
Ratio10(original_size, compressed_size) ==
    ((original_size - compressed_size) * 1000) \div original_size

\* compress_pdf from the return of subprocess.run(..., check=True) on.
compress_post_ignore_exit(exitcode, input_path, output_path, fsys) ==
    IF Exists(fsys, output_path)
    THEN IF ~Exists(fsys, input_path)
         THEN Failure(UnexpectedMsg("FileNotFoundError"))
         ELSE IF get_file_size(fsys, input_path) = 0
         THEN Failure(UnexpectedMsg("ZeroDivisionError"))
         ELSE Success([text |-> "Compression successful!",
                       original |-> get_file_size(fsys, input_path),
                       compressed |-> get_file_size(fsys, output_path),
                       ratio10 |-> Ratio10(get_file_size(fsys, input_path),
                                           get_file_size(fsys, output_path))])
    ELSE Failure(NotCreatedMsg)
compress_post(exitcode, input_path, output_path, fsys) ==
    IF exitcode # 0
    THEN Failure(GhostscriptErrorMsg)
    ELSE IF Exists(fsys, output_path)
    THEN IF ~Exists(fsys, input_path)
         THEN Failure(UnexpectedMsg("FileNotFoundError"))
         ELSE IF get_file_size(fsys, input_path) = 0
         THEN Failure(UnexpectedMsg("ZeroDivisionError"))
         ELSE Success([text |-> "Compression successful!",
                       original |-> get_file_size(fsys, input_path),
                       compressed |-> get_file_size(fsys, output_path),
                       ratio10 |-> Ratio10(get_file_size(fsys, input_path),
                                           get_file_size(fsys, output_path))])
    ELSE Failure(NotCreatedMsg)

\* ------------------------------------------------------------------- app.py
\* str(uuid.uuid4()): distinct calls draw distinct values.
uuid4(r) == r

input_filename_no_uuid(unique_id, original_filename) ==
    <<0, "_input_", original_filename>>
input_filename(unique_id, original_filename) ==
    <<unique_id, "_input_", original_filename>>
output_filename(unique_id, original_filename) ==
    <<unique_id, "_output_", original_filename>>

Msg(text) == [text |-> text]
NoResponse == [status |-> 0, body |-> "none", error |-> Msg("none")]
JsonError(status, error) == [status |-> status, body |-> "json", error |-> error]
ServerError(what) == JsonError(500, [text |-> "Server error: ", error |-> what])
FileResponse == [status |-> 200, body |-> "file", error |-> Msg("none")]

\* quality = request.form.get('quality', 'medium')
Absent == "<absent>"
form_quality(field) == IF field = Absent THEN "medium" ELSE field

\* The checks of lines 89-105, in order: the 400 answer, or NoResponse to go on.
validate_no_quality_check(req) ==
    IF ~req.hasFile THEN JsonError(400, Msg("No file provided"))
    ELSE IF req.filename = <<>> THEN JsonError(400, Msg("No file selected"))
    ELSE IF ~allowed_file(req.filename)
    THEN JsonError(400, Msg("Only PDF files are allowed"))
    ELSE NoResponse
validate(req) ==
    IF ~req.hasFile THEN JsonError(400, Msg("No file provided"))
    ELSE IF req.filename = <<>> THEN JsonError(400, Msg("No file selected"))
    ELSE IF ~allowed_file(req.filename)
    THEN JsonError(400, Msg("Only PDF files are allowed"))
    ELSE IF form_quality(req.quality) \notin Range(valid_qualities)
    THEN JsonError(400, [text |-> "Invalid quality. Must be one of: ",
                         names |-> valid_qualities])
    ELSE NoResponse

\* Lines 124-144: the answer built from the lifecycle's result.  sendFails is
\* the environment making send_file raise.
build_response(res, input_path, output_path, fsys, sendFails) ==
    IF ~res.success THEN JsonError(500, res.message)
    ELSE IF ~Exists(fsys, input_path) \/ ~Exists(fsys, output_path)
    THEN ServerError("FileNotFoundError")
    ELSE IF sendFails THEN ServerError("OSError")
    ELSE IF get_file_size(fsys, input_path) = 0
    THEN ServerError("ZeroDivisionError")
    ELSE FileResponse

\* Lines 148-154: the finally block.  rmFail names the path whose os.remove
\* raises ("none": no failure); the exception skips what is left of the block.
cleanup(fsys, input_path, output_path, rmFail) ==
    IF Exists(fsys, input_path) /\ rmFail = "input" THEN fsys
    ELSE LET f1 == IF Exists(fsys, input_path)
                   THEN RemoveFile(fsys, input_path) ELSE fsys
         IN  IF Exists(f1, output_path) /\ rmFail # "output"
             THEN RemoveFile(f1, output_path) ELSE f1

\* -------------------------------------------------------------------- state
VARIABLES
    pc,        \* each process's position
    request,   \* the HTTP request being handled (file part, form field)
    frame,     \* the call's paths and quality (handler locals / call arguments)
    exitcode,  \* the engine's exit status, once it has exited
    result,    \* compress_pdf's (success, message), once it has returned
    response,  \* the HTTP answer
    fs,        \* the file system: path -> [size, owner]
    dirs,      \* directory -> "present" | "absent" | "blocked"
    bundled,   \* whether the bundled engine path exists
    onPath,    \* the engine command names that resolve on PATH
    handle,    \* PDFCompressor.ghostscript_cmd
    spawned,   \* history: engine processes started by each process
    probes,    \* history: engine lookups made by each process
    opened,    \* history: the handler read or sent its output path
    foreign,   \* history: some process touched a file another process wrote
    own,       \* history: the files each process would hold had it run alone
    alone      \* history: the answer each request would get had it run alone

vars == <<pc, request, frame, exitcode, result, response, fs, dirs, bundled,
          onPath, handle, spawned, probes, opened, foreign, own, alone>>

NoRequest == [hasFile |-> FALSE, filename |-> <<>>, quality |-> Absent]
NoPath == Path("", <<>>)
NoFrame == [input_path |-> NoPath, output_path |-> NoPath, quality |-> Absent]
NoResult == [success |-> FALSE, message |-> Msg("none")]
NoExit == -1

\* What a client may send.
Filenames ==
    { <<>>,
      <<"a", ".", "t", "x", "t">>,
      <<"a", "p", "d", "f">>,
      <<"_", "a", ".", "P", "D", "F">> }
QualityFields == {Absent, "max", "ultra"}
RequestInputs ==
    { [hasFile |-> FALSE, filename |-> <<>>, quality |-> q] : q \in QualityFields }
    \cup [hasFile : {TRUE}, filename : Filenames, quality : QualityFields]

\* What a direct caller may pass.
QualityArgs == {"low", "medium", "high", "max", "ultra", ""}
ClientInput == Path("work", <<"in.pdf">>)
ClientOutputs == {Path("", <<"out.pdf">>), Path("out", <<"out.pdf">>)}
DirStates == {"present", "absent", "blocked"}
AllPresent == [d \in {"", UPLOAD_FOLDER, "work", "out"} |-> "present"]

ExitCodes == {0, 1}
Touches(who, paths) == \E q \in paths : q \in DOMAIN fs /\ fs[q].owner # who
OwnedBy(fsys, who) ==
    [q \in {x \in DOMAIN fsys : fsys[x].owner = who} |-> fsys[q]]

HistoryInit ==
    /\ spawned = [p \in Procs |-> 0]
    /\ probes = [p \in Procs |-> 0]
    /\ opened = [p \in Procs |-> FALSE]
    /\ foreign = FALSE
    /\ alone = [p \in Procs |-> NoResponse]

\* The server: no request has arrived; the upload folder exists and is empty.
Init ==
    /\ pc = [p \in Procs |-> IF p = Client THEN "off" ELSE "idle"]
    /\ request = [p \in Procs |-> NoRequest]
    /\ frame = [p \in Procs |-> NoFrame]
    /\ exitcode = [p \in Procs |-> NoExit]
    /\ result = [p \in Procs |-> NoResult]
    /\ response = [p \in Procs |-> NoResponse]
    /\ handle = [p \in Procs |-> None]
    /\ fs = NoFiles
    /\ own = [p \in Procs |-> NoFiles]
    /\ dirs = AllPresent
    /\ bundled \in BOOLEAN
    /\ onPath = {}
    /\ HistoryInit

\* A direct caller about to run PDFCompressor().compress_pdf(input, output, q).
LibInit ==
    /\ pc = [p \in Procs |-> IF p = Client THEN "start" ELSE "off"]
    /\ request = [p \in Procs |-> NoRequest]
    /\ \E q \in QualityArgs, out \in ClientOutputs :
         frame = [p \in Procs |->
                    IF p = Client
                    THEN [input_path |-> ClientInput, output_path |-> out,
                          quality |-> q]
                    ELSE NoFrame]
    /\ exitcode = [p \in Procs |-> NoExit]
    /\ result = [p \in Procs |-> NoResult]
    /\ response = [p \in Procs |-> NoResponse]
    /\ handle = [p \in Procs |-> None]
    /\ \E st \in DirStates : dirs = [AllPresent EXCEPT !["out"] = st]
    /\ Dirname(frame[Client].output_path) = "" => dirs["out"] = "present"
    /\ \E files \in SUBSET {"in", "out"}, size \in UploadSizes :
         /\ "out" \in files => dirs[Dirname(frame[Client].output_path)] = "present"
         /\ "in" \notin files => size = 0
         /\ fs = [q \in {ClientInput : x \in files \cap {"in"}}
                        \cup {frame[Client].output_path : x \in files \cap {"out"}} |->
                    [size |-> IF q = ClientInput THEN size ELSE SmallSize,
                     owner |-> Client]]
    /\ own = [p \in Procs |-> IF p = Client THEN fs ELSE NoFiles]
    /\ bundled \in BOOLEAN
    /\ onPath \in SUBSET Range(CandidateCommands)
    /\ HistoryInit

\* ------------------------------------------------- POST /api/compress steps
\* A request reaches the handler.
Arrive(r) ==
    /\ pc[r] = "idle"
    /\ \E req \in RequestInputs : request' = [request EXCEPT ![r] = req]
    /\ pc' = [pc EXCEPT ![r] = "received"]
    /\ UNCHANGED <<frame, exitcode, result, response, fs, dirs, bundled, onPath,
                   handle, spawned, probes, opened, foreign, own, alone>>

\* The handler returns: its locals and the request object are gone.
Return(r, resp, aloneResp) ==
    /\ pc' = [pc EXCEPT ![r] = "done"]
    /\ response' = [response EXCEPT ![r] = resp]
    /\ alone' = [alone EXCEPT ![r] = aloneResp]
    /\ request' = [request EXCEPT ![r] = NoRequest]
    /\ frame' = [frame EXCEPT ![r] = NoFrame]
    /\ exitcode' = [exitcode EXCEPT ![r] = NoExit]
    /\ result' = [result EXCEPT ![r] = NoResult]
    /\ handle' = [handle EXCEPT ![r] = None]

\* Lines 87-117: validation, the unique names, file.save(input_path).  The
\* save may fail (outer except, no cleanup) before or after creating the file.
\* The request object is not read after line 117, and is kept no longer.
Receive(r) ==
    /\ pc[r] = "received"
    /\ LET req == request[r]
           bad == validate(req)
           original_filename == secure_filename(req.filename)
           unique_id == uuid4(r)
           input_path ==
               Path(UPLOAD_FOLDER, input_filename(unique_id, original_filename))
           output_path ==
               Path(UPLOAD_FOLDER, output_filename(unique_id, original_filename))
       IN  IF bad # NoResponse
           THEN /\ Return(r, bad, bad)
                /\ UNCHANGED <<fs, own, foreign>>
           ELSE \E saved \in {"ok", "partial", "nofile"}, size \in UploadSizes :
                  /\ saved # "ok" => size = 0
                  /\ foreign' = (foreign \/ (saved # "nofile" /\ Touches(r, {input_path})))
                  /\ fs' = IF saved = "nofile" THEN fs
                           ELSE WriteFile(fs, input_path, size, r)
                  /\ own' = [own EXCEPT ![r] =
                               IF saved = "nofile" THEN @
                               ELSE WriteFile(@, input_path, size, r)]
                  /\ IF saved = "ok"
                     THEN /\ pc' = [pc EXCEPT ![r] = "saved"]
                          /\ frame' = [frame EXCEPT ![r] =
                                [input_path |-> input_path,
                                 output_path |-> output_path,
                                 quality |-> form_quality(req.quality)]]
                          /\ request' = [request EXCEPT ![r] = NoRequest]
                          /\ UNCHANGED <<exitcode, result, response,
                                         handle, alone>>
                     ELSE Return(r, ServerError("OSError"), ServerError("OSError"))
    /\ UNCHANGED <<dirs, bundled, onPath, spawned, probes, opened>>

\* What the handler answers when compress_pdf does not start the engine.
PreResponse(pre) ==
    CASE pre.kind = "return" -> JsonError(500, pre.result.message)
      [] pre.kind = "raise" -> ServerError("OSError")
      [] pre.kind = "spawn" -> NoResponse

\* Lines 121-122 up to subprocess.run: PDFCompressor() looks the engine up and
\* raises RuntimeError without one; compress_pdf validates, prepares the output
\* directory and starts the engine.  The handler's local quality is not read
\* after this call, and is kept no longer.
Invoke(r) ==
    /\ pc[r] = "saved"
    /\ probes' = [probes EXCEPT ![r] = @ + 1]
    /\ LET f == frame[r]
           h == find_ghostscript(bundled, onPath)
           pre == compress_pre(f.quality, f.input_path, f.output_path, fs, dirs)
           pre1 == compress_pre(f.quality, f.input_path, f.output_path, own[r], dirs)
       IN  /\ handle' = [handle EXCEPT ![r] = h]
           /\ IF h = None
              THEN /\ response' = [response EXCEPT ![r] =
                                      ServerError("Ghostscript not found")]
                   /\ alone' = [alone EXCEPT ![r] =
                                      ServerError("Ghostscript not found")]
                   /\ pc' = [pc EXCEPT ![r] = "cleanup"]
                   /\ UNCHANGED <<result, dirs, spawned, foreign>>
              ELSE /\ foreign' = (foreign \/ Touches(r, {f.input_path}))
                   /\ response' = [response EXCEPT ![r] = PreResponse(pre)]
                   /\ alone' = [alone EXCEPT ![r] = PreResponse(pre1)]
                   /\ result' = [result EXCEPT ![r] =
                                   IF pre.kind = "return" THEN pre.result ELSE @]
                   /\ dirs' = pre.dirs
                   /\ spawned' = [spawned EXCEPT ![r] =
                                    IF pre.kind = "spawn" THEN @ + 1 ELSE @]
                   /\ pc' = [pc EXCEPT ![r] =
                               IF pre.kind = "spawn" THEN "engine" ELSE "cleanup"]
    /\ frame' = [frame EXCEPT ![r].quality = Absent]
    /\ UNCHANGED <<request, exitcode, fs, bundled, onPath, opened, own>>

\* The engine process ends: any exit status, with no output, an empty output
\* or a non-empty output written at the output path.
EngineExit(p) ==
    /\ pc[p] = "engine"
    /\ \E code \in ExitCodes, out \in {"none", "empty", "full"} :
         LET path == frame[p].output_path
             size == IF out = "empty" THEN 0 ELSE SmallSize
         IN  /\ exitcode' = [exitcode EXCEPT ![p] = code]
             /\ foreign' = (foreign \/ Touches(p, {frame[p].input_path})
                                    \/ (out # "none" /\ Touches(p, {path})))
             /\ fs' = IF out = "none" THEN fs ELSE WriteFile(fs, path, size, p)
             /\ own' = [own EXCEPT ![p] =
                          IF out = "none" THEN @ ELSE WriteFile(@, path, size, p)]
    /\ pc' = [pc EXCEPT ![p] = "exited"]
    /\ UNCHANGED <<request, frame, result, response, dirs, bundled, onPath,
                   handle, spawned, probes, opened, alone>>

\* The engine process never ends.  subprocess.run is called without a timeout,
\* so nothing takes the caller out of this state.
EngineHang(p) ==
    /\ pc[p] = "engine"
    /\ pc' = [pc EXCEPT ![p] = "hung"]
    /\ UNCHANGED <<request, frame, exitcode, result, response, fs, dirs, bundled,
                   onPath, handle, spawned, probes, opened, foreign, own, alone>>

\* compress_pdf returns (lines 96-112) and the handler builds its answer
\* (lines 124-144).
Finish(r) ==
    /\ pc[r] = "exited"
    /\ \E sendFails \in BOOLEAN :
         LET f == frame[r]
             res == compress_post(exitcode[r], f.input_path, f.output_path, fs)
             res1 == compress_post(exitcode[r], f.input_path, f.output_path, own[r])
             resp == build_response(res, f.input_path, f.output_path, fs, sendFails)
         IN  /\ result' = [result EXCEPT ![r] = res]
             /\ response' = [response EXCEPT ![r] = resp]
             /\ alone' = [alone EXCEPT ![r] =
                   build_response(res1, f.input_path, f.output_path, own[r], sendFails)]
             /\ opened' = [opened EXCEPT ![r] =
                   res.success /\ Exists(fs, f.input_path)]
             /\ foreign' = (foreign \/ Touches(r, {f.input_path, f.output_path}))
    /\ pc' = [pc EXCEPT ![r] = "cleanup"]
    /\ UNCHANGED <<request, frame, exitcode, fs, dirs, bundled, onPath, handle,
                   spawned, probes, own>>

\* The finally block (lines 146-154), then the handler returns its answer.
Cleanup(r) ==
    /\ pc[r] = "cleanup"
    /\ \E rmFail \in {"none", "input", "output"} :
         LET f == frame[r]
         IN  /\ fs' = cleanup(fs, f.input_path, f.output_path, rmFail)
             /\ own' = [own EXCEPT ![r] =
                          cleanup(@, f.input_path, f.output_path, rmFail)]
             /\ foreign' = (foreign \/ Touches(r, {f.input_path, f.output_path}))
    /\ Return(r, response[r], alone[r])
    /\ UNCHANGED <<dirs, bundled, onPath, spawned, probes, opened>>

\* ------------------------------------------------------ direct caller steps
\* PDFCompressor() (lines 26-30).
ClientConstruct ==
    /\ pc[Client] = "start"
    /\ probes' = [probes EXCEPT ![Client] = @ + 1]
    /\ LET h == find_ghostscript(bundled, onPath)
       IN  /\ handle' = [handle EXCEPT ![Client] = h]
           /\ pc' = [pc EXCEPT ![Client] =
                       IF h = None THEN "init_failed" ELSE "constructed"]
    /\ UNCHANGED <<request, frame, exitcode, result, response, fs, dirs, bundled,
                   onPath, spawned, opened, foreign, own, alone>>

\* compress_pdf(input_path, output_path, quality) up to subprocess.run.
ClientCall ==
    /\ pc[Client] = "constructed"
    /\ LET f == frame[Client]
           pre == compress_pre(f.quality, f.input_path, f.output_path, fs, dirs)
       IN  /\ result' = [result EXCEPT ![Client] =
                           IF pre.kind = "return" THEN pre.result ELSE @]
           /\ dirs' = pre.dirs
           /\ spawned' = [spawned EXCEPT ![Client] =
                            IF pre.kind = "spawn" THEN @ + 1 ELSE @]
           /\ pc' = [pc EXCEPT ![Client] =
                       CASE pre.kind = "return" -> "returned"
                         [] pre.kind = "raise" -> "raised"
                         [] pre.kind = "spawn" -> "engine"]
    /\ UNCHANGED <<request, frame, exitcode, response, fs, bundled, onPath,
                   handle, probes, opened, foreign, own, alone>>

\* compress_pdf returns (lines 96-112).
ClientFinish ==
    /\ pc[Client] = "exited"
    /\ LET f == frame[Client]
       IN  result' = [result EXCEPT ![Client] =
               compress_post(exitcode[Client], f.input_path, f.output_path, fs)]
    /\ pc' = [pc EXCEPT ![Client] = "returned"]
    /\ UNCHANGED <<request, frame, exitcode, response, fs, dirs, bundled, onPath,
                   handle, spawned, probes, opened, foreign, own, alone>>

\* ----------------------------------------------------------- specifications
Next ==
    \E r \in Requests :
        \/ Arrive(r)
        \/ Receive(r)
        \/ Invoke(r)
        \/ EngineExit(r)
        \/ EngineHang(r)
        \/ Finish(r)
        \/ Cleanup(r)

Spec == Init /\ [][Next]_vars

LibNext ==
    \/ ClientConstruct
    \/ ClientCall
    \/ EngineExit(Client)
    \/ EngineHang(Client)
    \/ ClientFinish

LibSpec == LibInit /\ [][LibNext]_vars

\* The caller's own steps are taken when enabled; the engine owes nothing.
FairLibSpec ==
    LibSpec /\ WF_vars(ClientConstruct) /\ WF_vars(ClientCall)
            /\ WF_vars(ClientFinish) /\ WF_vars(EngineExit(Client) \/ EngineHang(Client))

\* =================================================================== claims
InFlight(r) == pc[r] \in {"saved", "engine", "hung", "exited", "cleanup"}
ValidQualityNames == {"low", "medium", "high", "max"}

\* C1: once the handler of a request has returned, no temporary file the
\* request created (its saved upload, its engine output) exists any more.
C1_TempFilesRemoved ==
    \A r \in Requests :
        pc[r] = "done" => ~ \E q \in DOMAIN fs : fs[q].owner = r

\* C2: when the engine exits with a non-zero status compress_pdf returns
\* success=false, whatever lies at the output path, and the handler answers
\* 500 without reading or sending the output path.
C2_NonZeroExitFails ==
    \A r \in Requests :
        (pc[r] = "cleanup" /\ exitcode[r] # NoExit /\ exitcode[r] # 0) =>
            /\ result[r].success = FALSE
            /\ response[r].status = 500
            /\ response[r].body # "file"
            /\ ~opened[r]
C2_Witness ==
    \E r \in Requests :
        /\ pc[r] = "cleanup" /\ exitcode[r] = 1
        /\ Exists(fs, frame[r].output_path)
        /\ fs[frame[r].output_path].size > 0
        /\ result[r] = Failure(GhostscriptErrorMsg)

\* C3: compress_pdf reports success only when the engine exited with status 0
\* and the output file exists and is not empty.
C3_SuccessNeedsNonEmptyOutput ==
    \A r \in Requests :
        (pc[r] = "cleanup" /\ result[r].success) =>
            /\ exitcode[r] = 0
            /\ Exists(fs, frame[r].output_path)
            /\ fs[frame[r].output_path].size > 0

\* C4: a compress_pdf call that has started the engine eventually returns,
\* even when the engine process never exits.
C4_EngineCallReturns ==
    (pc[Client] = "engine") ~> (pc[Client] = "returned")

\* C5: compress_pdf never raises: every call ends by returning a result.
C5_NeverRaises == pc[Client] # "raised"

\* C6 (as claimed): with a non-existent input path the outcome is the Failure
\* result, with no engine lookup and no engine process, engine installed or not.
ClientOver == pc[Client] \in {"init_failed", "returned", "raised", "hung"}
C6_NoLookupOnMissingInput ==
    (~Exists(fs, ClientInput) /\ ClientOver) =>
        /\ pc[Client] = "returned"
        /\ result[Client].success = FALSE
        /\ probes[Client] = 0
        /\ spawned[Client] = 0

\* C6 (amended): with a non-existent input path no engine process is started;
\* when the constructor found an engine, compress_pdf returns success=false
\* (naming the missing input when the quality is valid); when it found none,
\* the constructor has raised and compress_pdf is not reached.
C6_MissingInputNoEngineRun ==
    (~Exists(fs, ClientInput) /\ ClientOver) =>
        /\ spawned[Client] = 0
        /\ probes[Client] = 1
        /\ IF bundled
           THEN /\ pc[Client] = "returned"
                /\ result[Client].success = FALSE
                /\ frame[Client].quality \in ValidQualityNames =>
                       result[Client].message = InputNotFoundMsg(ClientInput)
           ELSE pc[Client] = "init_failed"
C6_Witness ==
    /\ ~Exists(fs, ClientInput)
    /\ bundled
    /\ pc[Client] = "returned"
    /\ result[Client] = Failure(InputNotFoundMsg(ClientInput))
    /\ spawned[Client] = 0

\* C7: with a quality outside {low, medium, high, max} compress_pdf returns
\* success=false with a message naming the four valid values, starts no
\* engine, and creates no directory and no file, input present or not.
C7_InvalidQualityRejected ==
    [][ frame[Client].quality \notin ValidQualityNames =>
          /\ dirs' = dirs
          /\ fs' = fs
          /\ spawned' = spawned
          /\ pc'[Client] \in {"start", "constructed", "init_failed", "returned"}
          /\ pc'[Client] = "returned" =>
                result'[Client] =
                    [success |-> FALSE,
                     message |-> [text |-> "Invalid quality setting. Choose from: ",
                                  names |-> <<"low", "medium", "high", "max">>]]
      ]_vars
C7_Witness ==
    /\ frame[Client].quality = "ultra"
    /\ ~Exists(fs, ClientInput)
    /\ frame[Client].output_path.dir = "out" /\ dirs["out"] = "absent"
    /\ pc[Client] = "returned"
    /\ result[Client] = Failure(InvalidQualityMsg)

\* C8: the locator returns the first candidate command that resolves, the
\* bundled path only when no command resolves, and nothing (the constructor
\* fails) when neither does.
LocateByPriority(hasBundled, commands) ==
    IF \E i \in DOMAIN CandidateCommands : CandidateCommands[i] \in commands
    THEN CandidateCommands[CHOOSE i \in DOMAIN CandidateCommands :
             /\ CandidateCommands[i] \in commands
             /\ \A j \in 1..(i-1) : CandidateCommands[j] \notin commands]
    ELSE IF hasBundled THEN BundledPath ELSE None
C8_LocatorPriority ==
    pc[Client] # "start" =>
        /\ handle[Client] = LocateByPriority(bundled, onPath)
        /\ handle[Client] = None <=> pc[Client] = "init_failed"

\* C9: a request with no file part, an empty file name, a file name whose
\* extension is not pdf, or a quality outside {low, medium, high, max} is
\* answered 400 with no temporary file written and no lifecycle call; a
\* lifecycle failure is answered 500, never 200 and never with a file.
HasPdfExtension(fn) ==
    /\ Len(fn) >= 4
    /\ fn[Len(fn) - 3] = "."
    /\ fn[Len(fn) - 2] \in {"p", "P"}
    /\ fn[Len(fn) - 1] \in {"d", "D"}
    /\ fn[Len(fn)] \in {"f", "F"}
BadRequest(req) ==
    \/ ~req.hasFile
    \/ req.filename = <<>>
    \/ ~HasPdfExtension(req.filename)
    \/ (req.quality # Absent /\ req.quality \notin ValidQualityNames)
C9_RejectsBeforeLifecycle ==
    [][ \A r \in Requests :
          /\ (pc[r] = "received" /\ pc'[r] # "received" /\ BadRequest(request[r])) =>
                /\ pc'[r] = "done"
                /\ response'[r].status = 400
                /\ fs' = fs
                /\ probes'[r] = 0 /\ spawned'[r] = 0
          /\ (pc'[r] = "cleanup" /\ result'[r] # NoResult /\ ~result'[r].success) =>
                /\ response'[r].status = 500
                /\ response'[r].body = "json"
          /\ (pc[r] = "cleanup" /\ pc'[r] = "done") => response'[r] = response[r]
      ]_vars
C9_Witness ==
    \E r \in Requests :
        /\ pc[r] = "done"
        /\ response[r].status = 400
        /\ response[r].error.text = "Invalid quality. Must be one of: "
        /\ fs = NoFiles

\* C10: concurrent requests have pairwise different temporary paths, none
\* reads, overwrites or deletes a file of another, and each gets the answer,
\* and leaves the files, it would have got and left running alone.
RequestPaths(r) == {frame[r].input_path, frame[r].output_path}
C10_RequestsIndependent ==
    /\ \A r1, r2 \in Requests :
          (r1 # r2 /\ InFlight(r1) /\ InFlight(r2)) =>
              RequestPaths(r1) \cap RequestPaths(r2) = {}
    /\ ~foreign
    /\ \A r \in Requests : OwnedBy(fs, r) = own[r]
    /\ \A r \in Requests : response[r] = alone[r]
C10_Witness ==
    \E r1, r2 \in Requests :
        /\ r1 # r2
        /\ pc[r1] = "exited" /\ pc[r2] = "cleanup"
        /\ frame[r1].input_path.name[3] = frame[r2].input_path.name[3]
        /\ Exists(fs, frame[r1].output_path)
        /\ response[r2].status = 200

====
